---- MODULE Spec2Model ----
(***************************************************************************)
(* State-machine model of the My Heater climate entity                     *)
(* (src/my_heater/climate.py, class MyHeaterClimate).                      *)
(*                                                                         *)
(* Everything runs on one asyncio event loop: an action of this module is  *)
(* the code one coroutine executes between two suspension points (await).  *)
(* Time is counted in ticks of 5 s, the common measure of the durations   *)
(* the code compares timestamps against (10 s, 15 s, minutes); a shorter   *)
(* sleep ends at the next tick. Temperatures are counted in half degrees.  *)
(***************************************************************************)
EXTENDS Integers, FiniteSets, Sequences, TLC

(***************************************************************************)
(* Program constants                                                       *)
(***************************************************************************)
MONITORING_INTERVAL_SECONDS == 120
Sleep_After_Power_Off == 60
SCENE_ACTIVATION_DELAY == 1
VOLTAGE_ON_THRESHOLD == 10
AUTO_ON_COOLDOWN_SECONDS == 15
HEAT_COOLDOWN_SECONDS == 10
\* The delay between two step scenes of async_set_temperature (1.5 s), in
\* whole seconds.
STEP_DELAY_SECONDS == 2

\* HVACMode.HEAT, HVACMode.OFF and a mode the entity does not support.
HEAT == "heat"
OFF == "off"
COOL == "cool"
RequestedModes == {HEAT, OFF, COOL}

\* datetime.now(): the present instant is the origin of the time axis. A
\* timestamp is stored as its offset from the present (0 or negative), and
\* the passing of time moves every stored timestamp back.
now == 0

\* Python None for a timestamp, a sensor reading, a task handle.
NoTime == 1
Unavailable == -1
NoTask == 0
\* A handle that still refers to a task that has finished (task.done()).
DoneTask == -1

(***************************************************************************)
(* Bounds of the model                                                     *)
(***************************************************************************)
\* Number of set_hvac_mode service calls and state changes of the power
\* sensor in a run, in any mix; the calls may all be in progress at once.
MaxStimuli == 3
\* Number of set_temperature service calls made in a run; they may all be in
\* progress at once.
MaxTemperatureCalls == 2

Slots == 1..MaxStimuli
TempSlots == 1..MaxTemperatureCalls
\* A task is created by a call or by a sensor event: no run has more.
TaskIds == 1..MaxStimuli

\* Seconds (rounded up to a tick) and whole degrees in the units of the model.
Seconds(s) == (s + 4) \div 5
Degrees(d) == 2 * d

\* Readings the power sensor can report (besides being unavailable).
PowerReadings == {Unavailable, VOLTAGE_ON_THRESHOLD - 1, VOLTAGE_ON_THRESHOLD,
                  VOLTAGE_ON_THRESHOLD + 1}
\* Readings the temperature sensor can report.
TempReadings ==
    {Unavailable, Degrees(10), Degrees(16), Degrees(17), Degrees(18), Degrees(25)}

\* Configurations accepted by the config flow: min_temp < max_temp is the
\* only cross-field check; default_temp is not checked against the range.
ConfigTemps == {Degrees(16), Degrees(17), Degrees(18), Degrees(19)}
TimerChoices == {0, 1}
MaxTimer == CHOOSE x \in TimerChoices : \A y \in TimerChoices : y <= x
\* Temperatures a set_temperature call can ask for (Unavailable: none given).
RequestedTemps ==
    {Unavailable, Degrees(15), Degrees(16), Degrees(17) + 1, Degrees(18),
     Degrees(19)}
Configs ==
    { c \in [min_temp : {Degrees(16)}, max_temp : {Degrees(18)},
             default_temp : ConfigTemps,
             power_usage_sensor : BOOLEAN, timer : TimerChoices] :
        ~(c.min_temp >= c.max_temp) }

VARIABLES
    config,                 \* config_entry.data
    options,                \* config_entry.options
    pressed,                \* the target at entity-add time, the step scenes
                            \* set_temperature has activated since (ups less
                            \* downs), whether every one of them succeeded
                            \* in calls that did not overlap (clean), whether
                            \* every one of them succeeded (ok) and whether
                            \* every request taken asked for a whole degree
    stimuli,                \* service calls, sensor events and faults so far
    lifecycle,              \* "constructed", "added", "removing", "removed"
    hvac_mode,              \* _attr_hvac_mode
    target_temperature,     \* _attr_target_temperature
    heat_start_time,        \* _heat_start_time
    last_mode_change_time,  \* last_mode_change_time
    monitoring_task,        \* _monitoring_task
    listener,               \* _power_sensor_listener_remove is set
    power,                  \* state of the power sensor
    calls,                  \* the set_hvac_mode invocations
    temp_calls,             \* the set_temperature invocations
    tasks,                  \* the reconciliation-loop tasks
    remover,                \* the async_will_remove_from_hass invocation
    event                   \* what the last step did (observation only)

vars == <<config, options, pressed, stimuli, lifecycle, hvac_mode, target_temperature,
          heat_start_time, last_mode_change_time, monitoring_task, listener, power,
          calls, temp_calls, tasks, remover, event>>

(***************************************************************************)
(* Records                                                                 *)
(***************************************************************************)
\* A set_hvac_mode invocation: its position, its parameter hvac_mode
\* (requested), its locals current_mode and now, the deadline of the sleep
\* it is in, the task it awaits in _stop_monitoring_task, and the number of
\* toggle commands it has issued.
IdleCall ==
    [pc |-> "idle", requested |-> OFF, current_mode |-> OFF, now |-> 0,
     wake |-> 0, waiting |-> NoTask, toggles |-> 0]

\* A reconciliation-loop task: its position, whether cancel() was called on
\* it, the deadline of the sleep it is in, its local power_after_delay and
\* the number of commands it has issued in the current cycle.
FreeTask ==
    [pc |-> "free", cancel |-> FALSE, wake |-> 0,
     power_after_delay |-> Unavailable, cmds |-> 0]
NewTask == [FreeTask EXCEPT !.pc = "created"]

\* An async_set_temperature invocation: its position, its locals target_temp,
\* current_target, difference and success_count, the deadline of its sleep,
\* and the number of step scenes it has activated.
IdleTempCall ==
    [pc |-> "idle", target_temp |-> 0, current_target |-> 0, difference |-> 0,
     success_count |-> 0, wake |-> 0, issued |-> 0]

\* config_entry.options before the options flow has been used.
NoOptions == [timer |-> Unavailable]

IdleRemover == [pc |-> "idle", waiting |-> NoTask]

NoEvent == [kind |-> "none"]

\* What async_get_last_state can return: nothing, or a state with a mode
\* string and a temperature attribute (Unavailable: absent or not a number).
NoLastState == [state |-> "none", temperature |-> Unavailable]
RestoredTemps == {Unavailable, Degrees(15), Degrees(17) + 1}
LastStates ==
    {NoLastState} \cup [state : {HEAT, OFF, "unknown"}, temperature : RestoredTemps]
\* The last states that leave the target temperature at default_temp.
DefaultLastStates ==
    {ls \in LastStates : ls.temperature \in {Unavailable, Degrees(15)}}

\* What has come from outside so far, counted against MaxStimuli.
StimuliTaken ==
    stimuli.set_hvac_mode + stimuli.power + stimuli.fault + stimuli.options

Live(t) == tasks[t].pc # "free"
LiveTasks == {t \in TaskIds : Live(t)}

Min(S) == CHOOSE x \in S : \A y \in S : x <= y

(***************************************************************************)
(* Properties of the entity                                                *)
(***************************************************************************)
\* Mutation of TimerDurationMinutes: the value given at setup.
TimerDurationAtSetup == config.timer

\* _timer_duration_minutes: the option, or else the value given at setup.
TimerDurationMinutes ==
    IF options.timer # Unavailable THEN options.timer ELSE config.timer

\* current_power_usage: None without a power sensor or a usable state.
current_power_usage ==
    IF ~config.power_usage_sensor THEN Unavailable ELSE power

(***************************************************************************)
(* Construction and restoration                                            *)
(***************************************************************************)
InitialTarget(cfg) == cfg.default_temp

InitWith(cfgs) ==
    /\ config \in cfgs
    /\ options = NoOptions
    /\ pressed = [start |-> InitialTarget(config), net |-> 0, clean |-> TRUE,
                  ok |-> TRUE, whole |-> TRUE]
    /\ stimuli = [set_hvac_mode |-> 0, power |-> 0, set_temperature |-> 0,
                  fault |-> 0, options |-> 0]
    /\ lifecycle = "constructed"
    /\ hvac_mode = OFF
    /\ target_temperature = InitialTarget(config)
    /\ heat_start_time = NoTime
    /\ last_mode_change_time = NoTime
    /\ monitoring_task = NoTask
    /\ listener = FALSE
    /\ power = Unavailable
    /\ calls = [c \in Slots |-> IdleCall]
    /\ temp_calls = [k \in TempSlots |-> IdleTempCall]
    /\ tasks = [t \in TaskIds |-> FreeTask]
    /\ remover = IdleRemover
    /\ event = NoEvent

\* The target temperature async_added_to_hass ends with.
RestoredTarget(last_state) ==
    IF /\ last_state.state # "none"
       /\ last_state.temperature # Unavailable
       /\ config.min_temp <= last_state.temperature
       /\ last_state.temperature <= config.max_temp
    THEN last_state.temperature
    ELSE config.default_temp

(***************************************************************************)
(* _start_monitoring_task and the end of a task                            *)
(***************************************************************************)
\* Mutation of StartCreates: the handle of a finished task is not replaced.
StartCreatesWhenUnset(h) == h = NoTask

\* _start_monitoring_task with the handle h: a task is created unless the
\* handle refers to a task that has not finished.
StartCreates(h) == h = NoTask \/ h = DoneTask

StartTask(h, ts) ==
    IF StartCreates(h)
    THEN /\ \E f \in TaskIds : ts[f].pc = "free"
         /\ LET f == Min({t \in TaskIds : ts[t].pc = "free"})
            IN /\ tasks' = [ts EXCEPT ![f] = NewTask]
               /\ monitoring_task' = f
    ELSE /\ tasks' = ts
         /\ monitoring_task' = h

\* The finally block of the loop: a handle to a finished task is dropped.
FinallyHandle(h) == IF h = DoneTask THEN NoTask ELSE h

\* Task t has finished: whoever refers to it now refers to a finished task.
HandleAfterDone(t, h) == IF h = t THEN DoneTask ELSE h

ReleaseCalls(t) ==
    [c \in Slots |->
        IF calls[c].pc = "stop_wait" /\ calls[c].waiting = t
        THEN [calls[c] EXCEPT !.waiting = DoneTask] ELSE calls[c]]

\* Mutation of ReleaseRemover: the end of the task does not wake the removal.
ReleaseRemoverNever(t) == remover

ReleaseRemover(t) ==
    IF remover.pc = "stop_wait" /\ remover.waiting = t
    THEN [remover EXCEPT !.waiting = DoneTask] ELSE remover

\* Task t leaves the loop through the finally block and is done.
TaskEnds(t) ==
    /\ tasks' = [tasks EXCEPT ![t] = FreeTask]
    /\ monitoring_task' = HandleAfterDone(t, FinallyHandle(monitoring_task))
    /\ calls' = ReleaseCalls(t)
    /\ remover' = ReleaseRemover(t)

\* _stop_monitoring_task finds a task to cancel.
StopNeeded == monitoring_task # NoTask /\ monitoring_task # DoneTask

\* A restoration that keeps a persisted mode the entity supports.
RestoredModeKept(last_state) ==
    IF last_state.state \in {HEAT, OFF} THEN last_state.state ELSE OFF

\* The mode async_added_to_hass ends with: the restored mode is overwritten.
RestoredMode(last_state) == OFF

async_added_to_hass(last_state) ==
    /\ lifecycle = "constructed"
    /\ lifecycle' = "added"
    /\ hvac_mode' = RestoredMode(last_state)
    /\ target_temperature' = RestoredTarget(last_state)
    /\ heat_start_time' = IF hvac_mode' = HEAT THEN now ELSE heat_start_time
    /\ listener' = config.power_usage_sensor
    /\ event' = [kind |-> "added", last_state |-> last_state]
    /\ IF hvac_mode' = HEAT
       THEN StartTask(monitoring_task, tasks)
       ELSE UNCHANGED <<monitoring_task, tasks>>
    /\ pressed' = [pressed EXCEPT !.start = target_temperature']
    /\ UNCHANGED <<config, options, temp_calls, stimuli, last_mode_change_time,
                   power, calls, remover>>

(***************************************************************************)
(* The event loop                                                          *)
(***************************************************************************)
CallSleeps == {"cooldown", "heat_settle"}
TaskSleeps == {"interval_sleep", "up_settle", "down_settle", "exp_sleep"}

\* A callback the event loop has ready runs before the clock moves on: a
\* task just created or cancelled, a finished wait_for, a finished sleep.
ReadyCallback ==
    \/ \E t \in TaskIds : Live(t) /\ (tasks[t].pc = "created" \/ tasks[t].cancel)
    \/ \E t \in TaskIds : tasks[t].pc \in TaskSleeps /\ now >= tasks[t].wake
    \/ \E c \in Slots : calls[c].pc \in CallSleeps /\ now >= calls[c].wake
    \/ \E c \in Slots : calls[c].pc = "stop_wait" /\ calls[c].waiting = DoneTask
    \/ \E k \in TempSlots :
          temp_calls[k].pc = "step_sleep" /\ now >= temp_calls[k].wake
    \/ remover.pc = "stop_wait" /\ remover.waiting = DoneTask

\* A new stimulus (a service call, a sensor event, the removal) is taken up
\* when the event loop has run the callbacks it had ready.
Quiescent == ~ReadyCallback

(***************************************************************************)
(* async_set_hvac_mode                                                     *)
(***************************************************************************)
Returned(rec, activated) ==
    [kind |-> "set_mode_returned", requested |-> rec.requested,
     current_mode |-> rec.current_mode, now |-> rec.now,
     toggles |-> rec.toggles, scene_activated |-> activated]

\* A scene is activated by who (the HEAT branch, the OFF branch or "loop")
\* after reading the power p (Unavailable when no reading was taken).
Command(who, scene, p) ==
    [kind |-> "command", by |-> who, scene |-> scene, power |-> p]

\* The calls with the finished one removed: the slots hold the calls in
\* progress in the order they started.
Compact(cs) ==
    LET act == SelectSeq([i \in Slots |-> cs[i]], LAMBDA r : r.pc # "idle")
    IN [i \in Slots |-> IF i <= Len(act) THEN act[i] ELSE IdleCall]

CallEnds(c) == Compact([calls EXCEPT ![c] = IdleCall])

\* The cooldown test of the HEAT branch.
HeatCooldown(call_now) ==
    /\ last_mode_change_time # NoTime
    /\ last_mode_change_time > call_now - Seconds(HEAT_COOLDOWN_SECONDS)

\* Mutation of HeatToggles: a reading equal to the threshold counts as low.
HeatTogglesAtThreshold(p) ==
    \/ config.power_usage_sensor /\ (p = Unavailable \/ p <= VOLTAGE_ON_THRESHOLD)
    \/ ~config.power_usage_sensor

\* The HEAT branch activates the toggle scene: power low or unknown, or no
\* power sensor.
HeatToggles(p) ==
    \/ config.power_usage_sensor /\ (p = Unavailable \/ p < VOLTAGE_ON_THRESHOLD)
    \/ ~config.power_usage_sensor

\* Mutation of OffHeatStart: the OFF branch forgets to clear the start time.
OffHeatStartKept == heat_start_time

\* What the OFF branch writes to _heat_start_time.
OffHeatStart == NoTime

\* What the HEAT branch writes to _heat_start_time.
HeatHeatStart(call_now) == call_now

\* The HEAT branch from "Set internal state and start monitoring" on.
HeatCommit(c, rec, h, activated) ==
    /\ hvac_mode' = HEAT
    /\ heat_start_time' = HeatHeatStart(rec.now)
    /\ last_mode_change_time' = rec.now
    /\ StartTask(h, tasks)
    /\ calls' = CallEnds(c)
    /\ event' = Returned(rec, activated)

\* The HEAT branch from the power reading on.
HeatProceed(c, rec, h) ==
    LET p == current_power_usage IN
    IF HeatToggles(p)
    THEN /\ calls' = [calls EXCEPT ![c] =
                [rec EXCEPT !.pc = "heat_toggle", !.toggles = rec.toggles + 1,
                            !.wake = 0, !.waiting = NoTask]]
         /\ monitoring_task' = h
         /\ event' = Command(HEAT, "toggle", p)
         /\ UNCHANGED <<hvac_mode, heat_start_time, last_mode_change_time, tasks>>
    ELSE HeatCommit(c, rec, h, FALSE)

\* Mutation of OffCommit: the state is written only if the scene call
\* succeeded.
OffCommitOnSuccess(c, rec, activated) ==
    /\ IF activated
       THEN /\ hvac_mode' = OFF
            /\ heat_start_time' = OffHeatStart
            /\ last_mode_change_time' = rec.now
       ELSE UNCHANGED <<hvac_mode, heat_start_time, last_mode_change_time>>
    /\ calls' = CallEnds(c)
    /\ event' = Returned(rec, activated)
    /\ UNCHANGED <<monitoring_task, tasks>>

\* The OFF branch after the scene call.
OffCommit(c, rec, activated) ==
    /\ hvac_mode' = OFF
    /\ heat_start_time' = OffHeatStart
    /\ last_mode_change_time' = rec.now
    /\ calls' = CallEnds(c)
    /\ event' = Returned(rec, activated)
    /\ UNCHANGED <<monitoring_task, tasks>>

\* async_set_hvac_mode from the line after _stop_monitoring_task on; h is
\* the handle _stop_monitoring_task has left.
AfterStop(c, rec, h) ==
    IF rec.requested = HEAT
    THEN IF HeatCooldown(rec.now)
         THEN /\ calls' = [calls EXCEPT ![c] =
                     [rec EXCEPT !.pc = "cooldown", !.waiting = NoTask,
                                 !.wake = now + Seconds(HEAT_COOLDOWN_SECONDS)]]
              /\ monitoring_task' = h
              /\ event' = NoEvent
              /\ UNCHANGED <<hvac_mode, heat_start_time, last_mode_change_time, tasks>>
         ELSE HeatProceed(c, rec, h)
    ELSE IF rec.requested = OFF
    THEN /\ calls' = [calls EXCEPT ![c] =
                [rec EXCEPT !.pc = "off_toggle", !.waiting = NoTask,
                            !.toggles = rec.toggles + 1]]
         /\ monitoring_task' = h
         /\ event' = Command(OFF, "toggle", Unavailable)
         /\ UNCHANGED <<hvac_mode, heat_start_time, last_mode_change_time, tasks>>
    ELSE /\ calls' = CallEnds(c)
         /\ monitoring_task' = h
         /\ event' = Returned(rec, FALSE)
         /\ UNCHANGED <<hvac_mode, heat_start_time, last_mode_change_time, tasks>>

\* Mutation of AlreadyActive: the no-op test is missing.
NeverActive(requested, current_mode) == FALSE

\* The no-op test at the top of async_set_hvac_mode.
AlreadyActive(requested, current_mode) == requested = current_mode

\* A service call set_hvac_mode(m) starts, in the lowest idle slot.
async_set_hvac_mode(c, m) ==
    /\ lifecycle = "added"
    /\ Quiescent
    /\ StimuliTaken < MaxStimuli
    /\ stimuli' = [stimuli EXCEPT !.set_hvac_mode = @ + 1]
    /\ calls[c].pc = "idle"
    /\ \A d \in Slots : calls[d].pc = "idle" => c <= d
    /\ LET rec == [IdleCall EXCEPT !.requested = m, !.current_mode = hvac_mode,
                                   !.now = now]
       IN IF AlreadyActive(m, hvac_mode)
          THEN /\ event' = Returned(rec, FALSE)
               /\ UNCHANGED <<hvac_mode, heat_start_time, last_mode_change_time,
                              monitoring_task, tasks, calls>>
          ELSE IF StopNeeded
          THEN /\ tasks' = [tasks EXCEPT ![monitoring_task].cancel = TRUE]
               /\ calls' = [calls EXCEPT ![c] =
                      [rec EXCEPT !.pc = "stop_wait", !.waiting = monitoring_task]]
               /\ event' = NoEvent
               /\ UNCHANGED <<hvac_mode, heat_start_time, last_mode_change_time,
                              monitoring_task>>
          ELSE AfterStop(c, rec, monitoring_task)
    /\ UNCHANGED <<config, options, pressed, temp_calls, lifecycle, target_temperature, listener, power,
                   remover>>

\* wait_for returns in _stop_monitoring_task: the handle is cleared.
StopReturns(c) ==
    /\ calls[c].pc = "stop_wait"
    /\ calls[c].waiting = DoneTask
    /\ AfterStop(c, calls[c], NoTask)
    /\ UNCHANGED <<config, options, pressed, temp_calls, stimuli, lifecycle, target_temperature, listener, power,
                   remover>>

\* The 10 s cooldown sleep of the HEAT branch is over.
CooldownOver(c) ==
    /\ calls[c].pc = "cooldown"
    /\ now >= calls[c].wake
    /\ HeatProceed(c, calls[c], monitoring_task)
    /\ UNCHANGED <<config, options, pressed, temp_calls, stimuli, lifecycle, target_temperature, listener, power,
                   remover>>

\* _activate_scene returns in the HEAT branch.
HeatSceneReturns(c, ok) ==
    /\ calls[c].pc = "heat_toggle"
    /\ IF ok
       THEN /\ calls' = [calls EXCEPT ![c].pc = "heat_settle",
                            ![c].wake = now + Seconds(SCENE_ACTIVATION_DELAY)]
            /\ event' = NoEvent
            /\ UNCHANGED <<hvac_mode, heat_start_time, last_mode_change_time,
                           monitoring_task, tasks>>
       ELSE HeatCommit(c, calls[c], monitoring_task, FALSE)
    /\ UNCHANGED <<config, options, pressed, temp_calls, stimuli, lifecycle, target_temperature, listener, power,
                   remover>>

\* The settle delay after a successful toggle of the HEAT branch is over.
HeatSettleOver(c) ==
    /\ calls[c].pc = "heat_settle"
    /\ now >= calls[c].wake
    /\ HeatCommit(c, calls[c], monitoring_task, TRUE)
    /\ UNCHANGED <<config, options, pressed, temp_calls, stimuli, lifecycle, target_temperature, listener, power,
                   remover>>

\* _activate_scene returns in the OFF branch.
OffSceneReturns(c, ok) ==
    /\ calls[c].pc = "off_toggle"
    /\ OffCommit(c, calls[c], ok)
    /\ UNCHANGED <<config, options, pressed, temp_calls, stimuli, lifecycle, target_temperature, listener, power,
                   remover>>

\* A rounding that takes a half away from zero.
RoundHalfAway(d) ==
    LET q == d \div 2
    IN IF d % 2 = 0 THEN q ELSE IF d > 0 THEN q + 1 ELSE q

(***************************************************************************)
(* async_set_temperature                                                   *)
(***************************************************************************)
\* Python's round() of a difference d of two temperatures (d in half
\* degrees, the result in whole steps): a half is rounded to the even step.
Round(d) ==
    LET q == d \div 2
    IN IF d % 2 = 0 THEN q
       ELSE IF q % 2 = 0 THEN q ELSE q + 1

Abs(x) == IF x < 0 THEN -x ELSE x

\* Mutation of InRange: only the upper limit is tested.
InRangeBelowMax(target_temp) == target_temp <= config.max_temp

\* The range test of async_set_temperature.
InRange(target_temp) ==
    config.min_temp <= target_temp /\ target_temp <= config.max_temp

\* Mutation of Clamp: the computed temperature is not clamped.
Unclamped(t) == t

\* max(min_temp, min(max_temp, t))
Clamp(t) ==
    LET capped == IF config.max_temp < t THEN config.max_temp ELSE t
    IN IF config.min_temp > capped THEN config.min_temp ELSE capped

\* Mutation of FinalTarget: the computed temperature is written also when
\* every step succeeded.
FinalTargetComputed(rec) ==
    Clamp(rec.current_target
          + Degrees(rec.success_count) * (IF rec.difference > 0 THEN 1 ELSE -1))

\* The target temperature async_set_temperature writes after its loop.
FinalTarget(rec) ==
    LET steps == Abs(rec.difference)
        new_calculated_temp ==
            Clamp(rec.current_target
                  + Degrees(rec.success_count) * (IF rec.difference > 0 THEN 1 ELSE -1))
    IN IF rec.success_count = steps THEN rec.target_temp ELSE new_calculated_temp

TempReturned(rec, written) ==
    [kind |-> "set_temperature_returned", target_temp |-> rec.target_temp,
     current_target |-> rec.current_target, difference |-> rec.difference,
     success_count |-> rec.success_count, issued |-> rec.issued,
     written |-> written]

StepScene(rec) == IF rec.difference > 0 THEN "up" ELSE "down"

\* No async_set_temperature invocation is in progress.
NoTempCall == \A j \in TempSlots : temp_calls[j].pc = "idle"

\* A whole number of degrees.
WholeDegrees(t) == t % 2 = 0

\* The record of requests after a call asking for target_temp is taken.
Requested(rec, target_temp) ==
    [rec EXCEPT !.clean = @ /\ NoTempCall,
                !.whole = @ /\ WholeDegrees(target_temp)]

\* The device after one more step scene of the call rec has been activated.
Pressed(rec) ==
    [pressed EXCEPT !.net = @ + (IF rec.difference > 0 THEN 1 ELSE -1)]

\* The code after the loop of async_set_temperature.
TempFinish(k, rec) ==
    /\ target_temperature' = FinalTarget(rec)
    /\ temp_calls' = [temp_calls EXCEPT ![k] = IdleTempCall]
    /\ event' = TempReturned(rec, TRUE)

\* A service call set_temperature(target_temp) starts, in the lowest idle
\* slot, and runs to its first await.
async_set_temperature(k, target_temp) ==
    /\ lifecycle = "added"
    /\ Quiescent
    /\ stimuli.set_temperature < MaxTemperatureCalls
    /\ stimuli' = [stimuli EXCEPT !.set_temperature = @ + 1]
    /\ temp_calls[k].pc = "idle"
    /\ \A j \in TempSlots : temp_calls[j].pc = "idle" => k <= j
    /\ IF target_temp = Unavailable \/ ~InRange(target_temp)
       THEN /\ event' = TempReturned([IdleTempCall EXCEPT !.target_temp = target_temp,
                                         !.current_target = target_temperature], FALSE)
            /\ UNCHANGED <<target_temperature, temp_calls, pressed>>
       ELSE LET rec == [IdleTempCall EXCEPT
                          !.target_temp = target_temp,
                          !.current_target = target_temperature,
                          !.difference = Round(target_temp - target_temperature)]
            IN IF rec.difference = 0
               THEN /\ target_temperature' = target_temp
                    /\ event' = TempReturned(rec, TRUE)
                    /\ pressed' = Requested(pressed, target_temp)
                    /\ UNCHANGED temp_calls
               ELSE /\ temp_calls' = [temp_calls EXCEPT ![k] =
                           [rec EXCEPT !.pc = "step_scene", !.issued = 1]]
                    /\ event' = Command("set_temperature", StepScene(rec), Unavailable)
                    /\ pressed' = Requested(Pressed(rec), target_temp)
                    /\ UNCHANGED target_temperature
    /\ UNCHANGED <<config, options, lifecycle, hvac_mode, heat_start_time,
                   last_mode_change_time, monitoring_task, listener, power,
                   calls, tasks, remover>>

\* _activate_scene returns in the loop of async_set_temperature.
TempSceneReturns(k, ok) ==
    /\ temp_calls[k].pc = "step_scene"
    /\ IF ok
       THEN /\ temp_calls' = [temp_calls EXCEPT
                   ![k].pc = "step_sleep",
                   ![k].success_count = @ + 1,
                   ![k].wake = now + Seconds(STEP_DELAY_SECONDS)]
            /\ event' = NoEvent
            /\ UNCHANGED <<target_temperature, pressed>>
       ELSE /\ TempFinish(k, temp_calls[k])
            /\ pressed' = [pressed EXCEPT !.clean = FALSE, !.ok = FALSE]
    /\ UNCHANGED <<config, options, stimuli, lifecycle, hvac_mode, heat_start_time,
                   last_mode_change_time, monitoring_task, listener, power,
                   calls, tasks, remover>>

\* The delay after a step is over: the next step, or the end of the loop.
TempSleepOver(k) ==
    /\ temp_calls[k].pc = "step_sleep"
    /\ now >= temp_calls[k].wake
    /\ IF temp_calls[k].success_count < Abs(temp_calls[k].difference)
       THEN /\ temp_calls' = [temp_calls EXCEPT ![k].pc = "step_scene",
                                                ![k].issued = @ + 1,
                                                ![k].wake = 0]
            /\ event' = Command("set_temperature", StepScene(temp_calls[k]),
                                Unavailable)
            /\ pressed' = Pressed(temp_calls[k])
            /\ UNCHANGED target_temperature
       ELSE /\ TempFinish(k, temp_calls[k])
            /\ UNCHANGED pressed
    /\ UNCHANGED <<config, options, stimuli, lifecycle, hvac_mode, heat_start_time,
                   last_mode_change_time, monitoring_task, listener, power,
                   calls, tasks, remover>>

(***************************************************************************)
(* _monitor_power_and_temperature: the reconciliation loop                 *)
(***************************************************************************)
\* Mutation of Resumes: a pending cancellation is not delivered first.
ResumesDespiteCancel(t, pcs) == tasks[t].pc \in pcs

\* Task t can take its next step from position pc (no cancellation pending).
Resumes(t, pcs) == tasks[t].pc \in pcs /\ ~tasks[t].cancel

\* The timer test of a cycle.
TimerExpired(timer, start, at) ==
    /\ timer > 0
    /\ start # NoTime
    /\ at - start >= Seconds(timer * 60)

\* Mutation of MaintenanceScene: a difference of exactly one degree counts
\* as too low or too high.
MaintenanceSceneInclusive(temp, target, p) ==
    IF temp # Unavailable /\ config.power_usage_sensor /\ p # Unavailable
    THEN IF temp - target <= -Degrees(1) /\ p <= VOLTAGE_ON_THRESHOLD THEN "up"
         ELSE IF temp - target >= Degrees(1) /\ p >= VOLTAGE_ON_THRESHOLD THEN "down"
         ELSE "none"
    ELSE "none"

\* Mutation of MaintenanceScene: a missing power reading counts as low and
\* a missing power sensor is not looked at.
MaintenanceSceneGuessing(temp, target, p) ==
    IF temp # Unavailable
    THEN IF temp - target < -Degrees(1) /\ p <= VOLTAGE_ON_THRESHOLD THEN "up"
         ELSE IF temp - target > Degrees(1) /\ p >= VOLTAGE_ON_THRESHOLD THEN "down"
         ELSE "none"
    ELSE "none"

\* The scene the temperature maintenance of a cycle activates, if any.
MaintenanceScene(temp, target, p) ==
    IF temp # Unavailable /\ config.power_usage_sensor /\ p # Unavailable
    THEN IF temp - target < -Degrees(1) /\ p <= VOLTAGE_ON_THRESHOLD THEN "up"
         ELSE IF temp - target > Degrees(1) /\ p >= VOLTAGE_ON_THRESHOLD THEN "down"
         ELSE "none"
    ELSE "none"

\* Mutation of SecondToggle: a reading equal to the threshold counts as off.
SecondToggleAboveThreshold(p) ==
    config.power_usage_sensor /\ p # Unavailable /\ p > VOLTAGE_ON_THRESHOLD

\* The timer-expiry sequence activates the toggle scene a second time.
SecondToggle(p) ==
    config.power_usage_sensor /\ p # Unavailable /\ p >= VOLTAGE_ON_THRESHOLD

\* The sleep until the next cycle begins; e is what the step is observed
\* to have done.
IntervalSleep(t, e) ==
    /\ tasks' = [tasks EXCEPT ![t].pc = "interval_sleep", ![t].cmds = 0,
                    ![t].wake = now + Seconds(MONITORING_INTERVAL_SECONDS)]
    /\ event' = e
    /\ UNCHANGED <<monitoring_task, calls, remover>>

\* Mutation of NextInterval: the loop sleeps whatever the mode.
NextIntervalAlways(t) ==
    IntervalSleep(t, [kind |-> "loop_sleeps", task |-> t])

\* "Wait for next interval": sleep if the mode is still HEAT, else break.
NextInterval(t) ==
    IF hvac_mode = HEAT
    THEN IntervalSleep(t, [kind |-> "loop_sleeps", task |-> t])
    ELSE /\ TaskEnds(t)
         /\ event' = [kind |-> "loop_exit", task |-> t]

\* A cycle of the loop, from "while True" to its first await; temp is the
\* reading of the temperature sensor.
LoopCycle(t, temp) ==
    /\ Resumes(t, {"created", "interval_sleep"})
    /\ tasks[t].pc = "interval_sleep" => now >= tasks[t].wake
    /\ IF hvac_mode # HEAT
       THEN /\ TaskEnds(t)
            /\ event' = [kind |-> "loop_exit", task |-> t]
       ELSE IF TimerExpired(TimerDurationMinutes, heat_start_time, now)
       THEN /\ tasks' = [tasks EXCEPT ![t].pc = "exp_toggle1", ![t].cmds = 1,
                                 ![t].wake = 0]
            /\ event' = Command("loop", "toggle", Unavailable)
            /\ UNCHANGED <<monitoring_task, calls, remover>>
       ELSE LET scene == MaintenanceScene(temp, target_temperature,
                                          current_power_usage)
            IN IF scene = "none"
               THEN IntervalSleep(t, [kind |-> "cycle_idle", task |-> t,
                                      current_temp |-> temp,
                                      power |-> current_power_usage])
               ELSE /\ tasks' = [tasks EXCEPT ![t].pc = scene \o "1", ![t].cmds = 1,
                                         ![t].wake = 0]
                    /\ event' = Command("loop", scene, current_power_usage)
                    /\ UNCHANGED <<monitoring_task, calls, remover>>
    /\ UNCHANGED <<config, options, pressed, temp_calls, stimuli, lifecycle, hvac_mode, target_temperature,
                   heat_start_time, last_mode_change_time, listener, power>>

\* The first step scene of the maintenance returns.
FirstStepReturns(t, ok) ==
    /\ Resumes(t, {"up1", "down1"})
    /\ IF ok
       THEN /\ tasks' = [tasks EXCEPT
                   ![t].pc = IF tasks[t].pc = "up1" THEN "up_settle" ELSE "down_settle",
                   ![t].wake = now + Seconds(SCENE_ACTIVATION_DELAY)]
            /\ event' = NoEvent
            /\ UNCHANGED <<monitoring_task, calls, remover>>
       ELSE NextInterval(t)
    /\ UNCHANGED <<config, options, pressed, temp_calls, stimuli, lifecycle, hvac_mode, target_temperature,
                   heat_start_time, last_mode_change_time, listener, power>>

\* The settle delay is over: the step scene is activated a second time.
StepSettleOver(t) ==
    /\ Resumes(t, {"up_settle", "down_settle"})
    /\ now >= tasks[t].wake
    /\ LET scene == IF tasks[t].pc = "up_settle" THEN "up" ELSE "down"
       IN /\ tasks' = [tasks EXCEPT ![t].pc = scene \o "2", ![t].cmds = 2,
                               ![t].wake = 0]
          /\ event' = Command("loop", scene, Unavailable)
    /\ UNCHANGED <<config, options, pressed, temp_calls, stimuli, lifecycle, hvac_mode, target_temperature,
                   heat_start_time, last_mode_change_time, monitoring_task,
                   listener, power, calls, remover>>

\* The second step scene of the maintenance returns.
SecondStepReturns(t, ok) ==
    /\ Resumes(t, {"up2", "down2"})
    /\ NextInterval(t)
    /\ UNCHANGED <<config, options, pressed, temp_calls, stimuli, lifecycle, hvac_mode, target_temperature,
                   heat_start_time, last_mode_change_time, listener, power>>

\* What the end of the timer-expiry sequence writes to _heat_start_time.
ExpiryHeatStart == NoTime

\* The end of the timer-expiry sequence: the state is forced to OFF, break.
ExpiryCommit(t, p) ==
    /\ hvac_mode' = OFF
    /\ heat_start_time' = ExpiryHeatStart
    /\ last_mode_change_time' = now
    /\ TaskEnds(t)
    /\ event' = [kind |-> "timer_off", task |-> t, cmds |-> tasks[t].cmds,
                 power_after_delay |-> p]

\* The first toggle of the timer-expiry sequence returns.
ExpiryFirstReturns(t, ok) ==
    /\ Resumes(t, {"exp_toggle1"})
    /\ tasks' = [tasks EXCEPT ![t].pc = "exp_sleep",
                    ![t].wake = now + Seconds(Sleep_After_Power_Off)]
    /\ event' = NoEvent
    /\ UNCHANGED <<config, options, pressed, temp_calls, stimuli, lifecycle, hvac_mode, target_temperature,
                   heat_start_time, last_mode_change_time, monitoring_task,
                   listener, power, calls, remover>>

\* The wait of the timer-expiry sequence is over: the power is checked.
ExpirySleepOver(t) ==
    /\ Resumes(t, {"exp_sleep"})
    /\ now >= tasks[t].wake
    /\ LET p == current_power_usage
       IN IF SecondToggle(p)
          THEN /\ tasks' = [tasks EXCEPT ![t].pc = "exp_toggle2", ![t].cmds = 2,
                               ![t].wake = 0, ![t].power_after_delay = p]
               /\ event' = Command("loop", "toggle", p)
               /\ UNCHANGED <<hvac_mode, heat_start_time, last_mode_change_time,
                              monitoring_task, calls, remover>>
          ELSE ExpiryCommit(t, p)
    /\ UNCHANGED <<config, options, pressed, temp_calls, stimuli, lifecycle, target_temperature, listener, power>>

\* The second toggle of the timer-expiry sequence returns.
ExpirySecondReturns(t, ok) ==
    /\ Resumes(t, {"exp_toggle2"})
    /\ ExpiryCommit(t, tasks[t].power_after_delay)
    /\ UNCHANGED <<config, options, pressed, temp_calls, stimuli, lifecycle, target_temperature, listener, power>>

\* CancelledError is raised in task t at the await it is suspended in. A
\* task that has not started yet never enters the try block.
TaskCancelled(t) ==
    /\ Live(t)
    /\ tasks[t].cancel
    /\ IF tasks[t].pc = "created"
       THEN /\ tasks' = [tasks EXCEPT ![t] = FreeTask]
            /\ monitoring_task' = HandleAfterDone(t, monitoring_task)
            /\ calls' = ReleaseCalls(t)
            /\ remover' = ReleaseRemover(t)
       ELSE TaskEnds(t)
    /\ event' = [kind |-> "loop_cancelled", task |-> t, at |-> tasks[t].pc]
    /\ UNCHANGED <<config, options, pressed, temp_calls, stimuli, lifecycle, hvac_mode, target_temperature,
                   heat_start_time, last_mode_change_time, listener, power>>

\* An exception other than CancelledError is raised in a cycle of task t
\* before the cycle has written or awaited anything: "except Exception" logs
\* it and the finally block ends the task.
LoopFault(t) ==
    /\ Resumes(t, {"created", "interval_sleep"})
    /\ tasks[t].pc = "interval_sleep" => now >= tasks[t].wake
    /\ hvac_mode = HEAT
    /\ StimuliTaken < MaxStimuli
    /\ stimuli' = [stimuli EXCEPT !.fault = @ + 1]
    /\ TaskEnds(t)
    /\ event' = [kind |-> "loop_failed", task |-> t]
    /\ UNCHANGED <<config, options, pressed, temp_calls, lifecycle, hvac_mode, target_temperature,
                   heat_start_time, last_mode_change_time, listener, power>>

(***************************************************************************)
(* _async_power_sensor_changed                                             *)
(***************************************************************************)
\* The cooldown test of the handler.
AutoOnCooldown ==
    /\ last_mode_change_time # NoTime
    /\ now - last_mode_change_time < Seconds(AUTO_ON_COOLDOWN_SECONDS)

\* Mutation of AutoOnPower: a reading equal to the threshold fires.
AutoOnPowerAtThreshold(power_usage) == power_usage >= VOLTAGE_ON_THRESHOLD

\* The threshold test of the handler.
AutoOnPower(power_usage) == power_usage > VOLTAGE_ON_THRESHOLD

\* The handler switches to HEAT for the reading r of the event.
AutoOnFires(r) ==
    /\ r # Unavailable
    /\ hvac_mode = OFF
    /\ ~AutoOnCooldown
    /\ AutoOnPower(r)

\* Mutation of AutoOnHeatStart: the handler leaves the start time alone.
AutoOnHeatStartKept(current_time) == heat_start_time

\* What the handler writes to _heat_start_time.
AutoOnHeatStart(current_time) ==
    IF heat_start_time = NoTime THEN current_time ELSE heat_start_time

\* The power sensor changes to r; the handler runs if it is subscribed. It
\* never suspends: _start_monitoring_task has no await.
PowerSensorChanged(r) ==
    /\ config.power_usage_sensor
    /\ Quiescent
    /\ StimuliTaken < MaxStimuli
    /\ stimuli' = [stimuli EXCEPT !.power = @ + 1]
    /\ power' = r
    /\ IF listener /\ AutoOnFires(r)
       THEN /\ hvac_mode' = HEAT
            /\ heat_start_time' = AutoOnHeatStart(now)
            /\ last_mode_change_time' = now
            /\ StartTask(monitoring_task, tasks)
            /\ event' = [kind |-> "auto_on", reading |-> r]
       ELSE /\ event' = [kind |-> "power_ignored", reading |-> r,
                         handled |-> listener]
            /\ UNCHANGED <<hvac_mode, heat_start_time, last_mode_change_time,
                           monitoring_task, tasks>>
    /\ UNCHANGED <<config, options, pressed, temp_calls, lifecycle, target_temperature, listener, calls,
                   remover>>

(***************************************************************************)
(* The options flow                                                        *)
(***************************************************************************)
\* The options flow stores a timer of v minutes in config_entry.options and
\* _async_options_updated writes the state. (The listener of __init__.py
\* then reloads the entry, which removes the entity:
\* async_will_remove_from_hass.)
OptionsUpdated(v) ==
    /\ lifecycle = "added"
    /\ Quiescent
    /\ StimuliTaken < MaxStimuli
    /\ stimuli' = [stimuli EXCEPT !.options = @ + 1]
    /\ options' = [options EXCEPT !.timer = v]
    /\ event' = [kind |-> "options_updated", timer |-> v]
    /\ UNCHANGED <<config, pressed, temp_calls, lifecycle, hvac_mode,
                   target_temperature, heat_start_time, last_mode_change_time,
                   monitoring_task, listener, power, calls, tasks, remover>>

(***************************************************************************)
(* async_will_remove_from_hass                                             *)
(***************************************************************************)
async_will_remove_from_hass ==
    /\ lifecycle = "added"
    /\ Quiescent
    /\ listener' = FALSE
    /\ IF StopNeeded
       THEN /\ tasks' = [tasks EXCEPT ![monitoring_task].cancel = TRUE]
            /\ remover' = [pc |-> "stop_wait", waiting |-> monitoring_task]
            /\ lifecycle' = "removing"
       ELSE /\ lifecycle' = "removed"
            /\ UNCHANGED <<tasks, remover>>
    /\ event' = NoEvent
    /\ UNCHANGED <<config, options, pressed, temp_calls, stimuli, hvac_mode, target_temperature, heat_start_time,
                   last_mode_change_time, monitoring_task, power, calls>>

\* wait_for returns in the _stop_monitoring_task of the removal.
RemoveStopReturns ==
    /\ remover.pc = "stop_wait"
    /\ remover.waiting = DoneTask
    /\ monitoring_task' = NoTask
    /\ remover' = IdleRemover
    /\ lifecycle' = "removed"
    /\ event' = [kind |-> "remove_returned"]
    /\ UNCHANGED <<config, options, pressed, temp_calls, stimuli, hvac_mode, target_temperature, heat_start_time,
                   last_mode_change_time, listener, power, calls, tasks>>

(***************************************************************************)
(* Time                                                                    *)
(***************************************************************************)
\* The instants at which a sleep ends or a time comparison changes its result.
Deadlines ==
    {calls[c].wake : c \in {d \in Slots : calls[d].pc \in CallSleeps}}
    \cup {tasks[t].wake : t \in {u \in TaskIds : tasks[u].pc \in TaskSleeps}}
    \cup {temp_calls[k].wake :
             k \in {j \in TempSlots : temp_calls[j].pc = "step_sleep"}}
    \cup (IF last_mode_change_time = NoTime THEN {}
          ELSE {last_mode_change_time + Seconds(HEAT_COOLDOWN_SECONDS),
                last_mode_change_time + Seconds(AUTO_ON_COOLDOWN_SECONDS)})
    \cup (IF heat_start_time = NoTime \/ TimerDurationMinutes = 0 THEN {}
          ELSE {heat_start_time + Seconds(TimerDurationMinutes * 60)})

\* Every time comparison of the code is between the present and a stored
\* timestamp, against one of these durations: older timestamps are alike.
Horizon ==
    LET ds == {Seconds(HEAT_COOLDOWN_SECONDS), Seconds(AUTO_ON_COOLDOWN_SECONDS),
               Seconds(MaxTimer * 60)}
    IN CHOOSE x \in ds : \A y \in ds : y <= x

\* A timestamp after d ticks have passed.
Aged(ts, d) ==
    IF ts = NoTime THEN NoTime
    ELSE IF ts - d < -Horizon THEN -Horizon ELSE ts - d

\* The clock advances to the next deadline.
Tick ==
    /\ ~ReadyCallback
    /\ \E d \in Deadlines : d > now
    /\ LET d == Min({x \in Deadlines : x > now})
       IN /\ heat_start_time' = Aged(heat_start_time, d)
          /\ last_mode_change_time' = Aged(last_mode_change_time, d)
          /\ calls' = [c \in Slots |->
                IF calls[c].pc = "idle" THEN calls[c]
                ELSE [calls[c] EXCEPT
                        !.now = Aged(calls[c].now, d),
                        !.wake = IF calls[c].pc \in CallSleeps
                                 THEN calls[c].wake - d ELSE 0]]
          /\ tasks' = [t \in TaskIds |->
                IF tasks[t].pc \in TaskSleeps
                THEN [tasks[t] EXCEPT !.wake = tasks[t].wake - d]
                ELSE tasks[t]]
          /\ temp_calls' = [k \in TempSlots |->
                IF temp_calls[k].pc = "step_sleep"
                THEN [temp_calls[k] EXCEPT !.wake = temp_calls[k].wake - d]
                ELSE temp_calls[k]]
    /\ event' = NoEvent
    /\ UNCHANGED <<config, options, pressed, stimuli, lifecycle, hvac_mode, target_temperature,
                   monitoring_task, listener, power, remover>>

(***************************************************************************)
(* Specification                                                           *)
(***************************************************************************)
ModeConfigs == {c \in Configs : c.default_temp = Degrees(17)}

Init == InitWith(ModeConfigs)

Next ==
    \/ \E ls \in DefaultLastStates : async_added_to_hass(ls)
    \/ \E c \in Slots, m \in RequestedModes : async_set_hvac_mode(c, m)
    \/ \E c \in Slots : StopReturns(c)
    \/ \E c \in Slots : CooldownOver(c)
    \/ \E c \in Slots, ok \in BOOLEAN : HeatSceneReturns(c, ok)
    \/ \E c \in Slots : HeatSettleOver(c)
    \/ \E c \in Slots, ok \in BOOLEAN : OffSceneReturns(c, ok)
    \/ \E t \in TaskIds, temp \in TempReadings : LoopCycle(t, temp)
    \/ \E t \in TaskIds, ok \in BOOLEAN : FirstStepReturns(t, ok)
    \/ \E t \in TaskIds : StepSettleOver(t)
    \/ \E t \in TaskIds, ok \in BOOLEAN : SecondStepReturns(t, ok)
    \/ \E t \in TaskIds, ok \in BOOLEAN : ExpiryFirstReturns(t, ok)
    \/ \E t \in TaskIds : ExpirySleepOver(t)
    \/ \E t \in TaskIds, ok \in BOOLEAN : ExpirySecondReturns(t, ok)
    \/ \E t \in TaskIds : TaskCancelled(t)
    \/ \E r \in PowerReadings : PowerSensorChanged(r)
    \/ async_will_remove_from_hass
    \/ RemoveStopReturns
    \/ Tick

Spec == Init /\ [][Next]_vars

\* The event loop runs every callback it has ready, every awaited scene call
\* and wait_for returns, and the clock reaches every deadline. Service calls,
\* sensor events and the removal are the environment's: none is owed.
Scheduling ==
    /\ \A c \in Slots : WF_vars(StopReturns(c))
    /\ \A c \in Slots : WF_vars(CooldownOver(c))
    /\ \A c \in Slots : WF_vars(\E ok \in BOOLEAN : HeatSceneReturns(c, ok))
    /\ \A c \in Slots : WF_vars(HeatSettleOver(c))
    /\ \A c \in Slots : WF_vars(\E ok \in BOOLEAN : OffSceneReturns(c, ok))
    /\ \A t \in TaskIds : WF_vars(\E temp \in TempReadings : LoopCycle(t, temp))
    /\ \A t \in TaskIds : WF_vars(\E ok \in BOOLEAN : FirstStepReturns(t, ok))
    /\ \A t \in TaskIds : WF_vars(StepSettleOver(t))
    /\ \A t \in TaskIds : WF_vars(\E ok \in BOOLEAN : SecondStepReturns(t, ok))
    /\ \A t \in TaskIds : WF_vars(\E ok \in BOOLEAN : ExpiryFirstReturns(t, ok))
    /\ \A t \in TaskIds : WF_vars(ExpirySleepOver(t))
    /\ \A t \in TaskIds : WF_vars(\E ok \in BOOLEAN : ExpirySecondReturns(t, ok))
    /\ \A t \in TaskIds : WF_vars(TaskCancelled(t))
    /\ WF_vars(RemoveStopReturns)
    /\ WF_vars(Tick)

SpecFair == Init /\ [][Next]_vars /\ Scheduling

\* The options flow may change the timer; at setup it was left at 0
\* (disabled), so that the timer in effect is whatever the options say.
InitOptions == InitWith({c \in ModeConfigs : c.timer = 0})

NextOptions ==
    \/ Next
    \/ \E v \in TimerChoices : OptionsUpdated(v)

SpecOptions == InitOptions /\ [][NextOptions]_vars

\* The loop may fail in a cycle.
NextFault ==
    \/ Next
    \/ \E t \in TaskIds : LoopFault(t)

SpecFault == Init /\ [][NextFault]_vars

\* The target temperature: every accepted configuration, every restorable
\* state, set_temperature calls in any interleaving.
InitTemp == InitWith(Configs)

NextTemp ==
    \/ \E ls \in LastStates : async_added_to_hass(ls)
    \/ \E k \in TempSlots, t \in RequestedTemps : async_set_temperature(k, t)
    \/ \E k \in TempSlots, ok \in BOOLEAN : TempSceneReturns(k, ok)
    \/ \E k \in TempSlots : TempSleepOver(k)
    \/ Tick

SpecTemp == InitTemp /\ [][NextTemp]_vars

(***************************************************************************)
(* Properties                                                              *)
(***************************************************************************)
\* A step in which an async_set_hvac_mode invocation writes hvac_mode,
\* _heat_start_time and last_mode_change_time: the end of its HEAT or OFF
\* branch.
ModeWritten(e) ==
    /\ e.kind = "set_mode_returned"
    /\ e.requested \in {HEAT, OFF}
    /\ e.requested # e.current_mode

\* C1: in every reachable state at most one reconciliation loop is live (a
\* task that was asked to cancel and has not yet terminated counts as live).
C1_AtMostOneLiveLoop == Cardinality(LiveTasks) <= 1

\* C2: in every reachable state target_temperature lies within
\* [min_temp, max_temp], for every configuration with min_temp < max_temp.
C2_TargetWithinRange ==
    config.min_temp <= target_temperature /\ target_temperature <= config.max_temp

\* C3: in every reachable state, also while an operation is suspended,
\* heat_start_time is set if and only if hvac_mode is HEAT.
C3_HeatStartIffHeat == (heat_start_time # NoTime) <=> (hvac_mode = HEAT)

\* The mode is HEAT with its start time set while a set_hvac_mode(OFF) is
\* suspended in its scene call.
C3_Witness ==
    /\ hvac_mode = HEAT
    /\ heat_start_time # NoTime
    /\ \E c \in Slots : calls[c].pc = "off_toggle"

\* C4: in every step in which a set_hvac_mode invocation writes hvac_mode,
\* heat_start_time or last_mode_change_time, no reconciliation loop is live.
C4_CancelBeforeMutate == [][ModeWritten(event') => LiveTasks = {}]_vars


\* A step of an async_set_hvac_mode invocation whose requested mode is
\* neither HEAT nor OFF: its start, or its return from _stop_monitoring_task.
UnsupportedStep ==
    \/ \E c \in Slots : async_set_hvac_mode(c, COOL)
    \/ \E c \in Slots : calls[c].requested = COOL /\ StopReturns(c)

\* C5: set_hvac_mode with a mode that is neither OFF nor HEAT leaves
\* hvac_mode, target_temperature, heat_start_time and last_mode_change_time
\* unchanged, issues no command, and leaves every live loop live, with no
\* cancellation requested.
C5_UnsupportedModeChangesNothing ==
    [][UnsupportedStep =>
        /\ UNCHANGED <<hvac_mode, target_temperature, heat_start_time,
                       last_mode_change_time>>
        /\ event'.kind # "command"
        /\ \A t \in LiveTasks : tasks'[t].pc # "free" /\ ~tasks'[t].cancel]_vars

\* C6: set_hvac_mode(HEAT) requested twice from mode OFF, the second while
\* the first is still in progress: the two issue at most one toggle command.
C6_SecondHeatIssuesNoToggle ==
    \A c, d \in Slots :
        /\ c # d
        /\ calls[c].pc # "idle" /\ calls[c].requested = HEAT
        /\ calls[c].current_mode = OFF
        /\ calls[d].pc # "idle" /\ calls[d].requested = HEAT
        /\ calls[d].current_mode = OFF
        => calls[c].toggles + calls[d].toggles <= 1

\* C7: set_hvac_mode(m) called while hvac_mode is m returns at once: no
\* command, hvac_mode, heat_start_time and last_mode_change_time unchanged,
\* the loop neither cancelled nor restarted.
C7_SameModeIsNoOp ==
    [][\A m \in RequestedModes :
        (hvac_mode = m /\ \E c \in Slots : async_set_hvac_mode(c, m)) =>
            /\ UNCHANGED <<hvac_mode, heat_start_time, last_mode_change_time,
                           monitoring_task, tasks, calls>>
            /\ event'.kind = "set_mode_returned"
            /\ event'.toggles = 0]_vars

\* set_hvac_mode(HEAT) has returned at once while the loop is running.
C7_Witness ==
    /\ event.kind = "set_mode_returned"
    /\ event.requested = HEAT
    /\ event.current_mode = HEAT
    /\ monitoring_task \in TaskIds

\* The power state is inferred OFF or UNKNOWN from the reading p.
PowerInferredOff(p) ==
    ~config.power_usage_sensor \/ p = Unavailable \/ p < VOLTAGE_ON_THRESHOLD

\* C8: set_hvac_mode(HEAT) from OFF issues the toggle exactly when the power
\* state is inferred OFF or UNKNOWN, never more than once, and ends with
\* hvac_mode HEAT and a loop running whether or not the toggle succeeded.
C8_HeatTogglesWhenInferredOff ==
    /\ (event.kind = "command" /\ event.by = HEAT) => PowerInferredOff(event.power)
    /\ (event.kind = "set_mode_returned" /\ event.requested = HEAT
            /\ event.current_mode = OFF) =>
        /\ event.toggles <= 1
        /\ event.toggles = 0 => ~PowerInferredOff(current_power_usage)
        /\ hvac_mode = HEAT
        /\ heat_start_time = event.now
        /\ monitoring_task \in TaskIds
        /\ Live(monitoring_task)

\* set_hvac_mode(HEAT) from OFF has ended after a toggle that failed.
C8_Witness ==
    /\ event.kind = "set_mode_returned"
    /\ event.requested = HEAT
    /\ event.current_mode = OFF
    /\ event.toggles = 1
    /\ ~event.scene_activated
    /\ hvac_mode = HEAT

\* C9: set_hvac_mode(OFF) from HEAT issues the toggle exactly once whatever
\* the power reading, and ends with hvac_mode OFF, heat_start_time cleared
\* and last_mode_change_time set to the time of the call, also when the
\* toggle failed.
C9_OffAlwaysCommits ==
    /\ \A c \in Slots : calls[c].pc = "off_toggle" => calls[c].toggles = 1
    /\ (event.kind = "set_mode_returned" /\ event.requested = OFF
            /\ event.current_mode = HEAT) =>
        /\ event.toggles = 1
        /\ hvac_mode = OFF
        /\ heat_start_time = NoTime
        /\ last_mode_change_time = event.now

\* set_hvac_mode(OFF) from HEAT has ended after a toggle that failed, with
\* the power sensor reading above the threshold.
C9_Witness ==
    /\ event.kind = "set_mode_returned"
    /\ event.requested = OFF
    /\ event.current_mode = HEAT
    /\ ~event.scene_activated
    /\ current_power_usage > VOLTAGE_ON_THRESHOLD
    /\ hvac_mode = OFF

\* The heater is still read as ON after the wait of the expiry sequence.
StillOn(p) ==
    config.power_usage_sensor /\ p # Unavailable /\ p >= VOLTAGE_ON_THRESHOLD

\* C10: the timer-expiry sequence starts only when the timer is set and has
\* run out; it issues one toggle, waits, issues a second toggle only if a
\* power sensor is configured and reads at least the threshold after the
\* wait; then hvac_mode is OFF, heat_start_time is cleared and the loop has
\* terminated.
C10_TimerExpirySequence ==
    /\ \A t \in TaskIds :
        /\ tasks[t].pc \in {"exp_toggle1", "exp_sleep"} => tasks[t].cmds = 1
        /\ tasks[t].pc = "exp_toggle2" =>
              tasks[t].cmds = 2 /\ StillOn(tasks[t].power_after_delay)
    /\ (event.kind = "command" /\ event.by = "loop" /\ event.scene = "toggle"
            /\ event.power = Unavailable) =>
        /\ TimerDurationMinutes > 0
        /\ heat_start_time # NoTime
        /\ now - heat_start_time >= Seconds(TimerDurationMinutes * 60)
    /\ event.kind = "timer_off" =>
        /\ event.cmds = (IF StillOn(event.power_after_delay) THEN 2 ELSE 1)
        /\ hvac_mode = OFF
        /\ heat_start_time = NoTime
        /\ ~Live(event.task)

\* The expiry sequence has ended after a second toggle.
C10_Witness ==
    /\ event.kind = "timer_off"
    /\ event.cmds = 2
    /\ hvac_mode = OFF

\* A set_temperature call has ended after one of its step commands failed.
StepFailed(e) ==
    /\ e.kind = "set_temperature_returned"
    /\ e.written
    /\ e.success_count < (IF e.difference < 0 THEN -e.difference ELSE e.difference)

\* t brought into [min_temp, max_temp].
WithinLimits(t) ==
    IF t < config.min_temp THEN config.min_temp
    ELSE IF t > config.max_temp THEN config.max_temp ELSE t

\* C11: when the k-th step command of a set_temperature call fails, k-1
\* steps are counted as succeeded, the call ends in that step (so it issues
\* no further command), and target_temperature is the target at the start of
\* the call plus or minus k-1 degrees, clamped to [min_temp, max_temp].
C11_FailedStepStopsAndClamps ==
    [][StepFailed(event') =>
        \E k \in TempSlots :
            /\ temp_calls[k].pc = "step_scene"
            /\ temp_calls'[k].pc = "idle"
            /\ event'.success_count = temp_calls[k].issued - 1
            /\ target_temperature' =
                  WithinLimits(temp_calls[k].current_target
                      + (IF temp_calls[k].difference > 0 THEN 1 ELSE -1)
                        * Degrees(temp_calls[k].issued - 1))]_vars

\* The second of several step commands has failed, and the clamp has moved
\* the computed temperature.
C11_Witness ==
    /\ StepFailed(event)
    /\ event.issued = 2
    /\ event.current_target > config.max_temp
    /\ target_temperature = config.max_temp

\* A set_temperature call has ended after all its step commands succeeded.
AllStepsSucceeded(e) ==
    /\ e.kind = "set_temperature_returned"
    /\ e.written
    /\ e.difference # 0
    /\ e.success_count = (IF e.difference < 0 THEN -e.difference ELSE e.difference)

OutOfRangeCall ==
    \E k \in TempSlots, t \in RequestedTemps :
        /\ t # Unavailable
        /\ (t < config.min_temp \/ t > config.max_temp)
        /\ async_set_temperature(k, t)

\* C13: set_temperature with a requested value outside [min_temp, max_temp]
\* issues no command and leaves target_temperature and all other runtime
\* state unchanged.
C13_OutOfRangeRejected ==
    [][OutOfRangeCall =>
        /\ event'.kind = "set_temperature_returned"
        /\ ~event'.written
        /\ UNCHANGED <<hvac_mode, target_temperature, heat_start_time,
                       last_mode_change_time, monitoring_task, listener,
                       power, lifecycle, calls, temp_calls, tasks, remover>>]_vars

\* A request below min_temp has been rejected.
C13_Witness ==
    /\ event.kind = "set_temperature_returned"
    /\ ~event.written
    /\ event.target_temp # Unavailable
    /\ event.target_temp < config.min_temp

\* The 15 s cooldown after the last mode change is over, or there was none.
CooldownPassed ==
    \/ last_mode_change_time = NoTime
    \/ now - last_mode_change_time >= Seconds(AUTO_ON_COOLDOWN_SECONDS)

\* C14: a power-sensor event handled with hvac_mode OFF, the cooldown over
\* (or no mode change yet) and a reading above the threshold sets hvac_mode
\* to HEAT, heat_start_time and last_mode_change_time to now, leaves a
\* reconciliation loop running, and issues no command.
C14_AutoOn ==
    [][\A r \in PowerReadings :
        (/\ PowerSensorChanged(r)
         /\ listener
         /\ hvac_mode = OFF
         /\ CooldownPassed
         /\ r # Unavailable
         /\ r > VOLTAGE_ON_THRESHOLD) =>
            /\ event'.kind = "auto_on"
            /\ hvac_mode' = HEAT
            /\ heat_start_time' = now
            /\ last_mode_change_time' = now
            /\ monitoring_task' \in TaskIds
            /\ tasks'[monitoring_task'].pc # "free"
            /\ UNCHANGED <<calls, temp_calls>>]_vars

\* The handler has switched to HEAT after an earlier mode change.
C14_Witness ==
    /\ event.kind = "auto_on"
    /\ hvac_mode = HEAT
    /\ heat_start_time = now
    /\ monitoring_task \in TaskIds
    /\ stimuli.set_hvac_mode = 2

\* C15: a power-sensor event whose reading is unavailable or does not exceed
\* the threshold, or that arrives while hvac_mode is not OFF or within 15 s
\* of the last mode change, changes neither hvac_mode nor heat_start_time
\* nor last_mode_change_time, starts no loop and issues no command.
C15_PowerEventIgnored ==
    [][\A r \in PowerReadings :
        (/\ PowerSensorChanged(r)
         /\ \/ r = Unavailable
            \/ hvac_mode # OFF
            \/ ~CooldownPassed
            \/ r <= VOLTAGE_ON_THRESHOLD) =>
            /\ event'.kind = "power_ignored"
            /\ UNCHANGED <<hvac_mode, heat_start_time, last_mode_change_time,
                           monitoring_task, tasks, calls, temp_calls>>]_vars

\* A reading above the threshold has been ignored in mode OFF: the cooldown
\* was running.
C15_Witness ==
    /\ event.kind = "power_ignored"
    /\ event.handled
    /\ event.reading > VOLTAGE_ON_THRESHOLD
    /\ hvac_mode = OFF
    /\ last_mode_change_time # NoTime

\* C16: a cycle of the loop in mode HEAT whose timer has not run out and
\* that reads a temperature within one degree of target_temperature issues
\* no command, whatever the power reading: it goes to sleep.
C16_DeadBand ==
    [][\A t \in TaskIds, temp \in TempReadings :
        (/\ LoopCycle(t, temp)
         /\ hvac_mode = HEAT
         /\ ~TimerExpired(TimerDurationMinutes, heat_start_time, now)
         /\ temp # Unavailable
         /\ -Degrees(1) <= temp - target_temperature
         /\ temp - target_temperature <= Degrees(1)) =>
            /\ event'.kind = "cycle_idle"
            /\ tasks'[t].pc = "interval_sleep"
            /\ tasks'[t].cmds = 0]_vars

\* A cycle has read a temperature one degree below the target with the
\* power low, and has issued no command.
C16_Witness ==
    /\ event.kind = "cycle_idle"
    /\ event.current_temp = target_temperature - Degrees(1)
    /\ event.power # Unavailable
    /\ event.power <= VOLTAGE_ON_THRESHOLD
    /\ tasks[event.task].pc = "interval_sleep"

C18_RemovedHasNoLoop ==
    lifecycle = "removed" =>
        /\ LiveTasks = {}
        /\ event.kind # "auto_on"

\* C19: while the entity is installed, whenever the mode is HEAT and
\* timer_minutes is positive, the mode eventually becomes OFF, whatever the
\* scene calls return, provided the event loop keeps running and time
\* advances.
C19_AutoOff ==
    (lifecycle = "added" /\ hvac_mode = HEAT /\ TimerDurationMinutes > 0)
        ~> (hvac_mode = OFF \/ lifecycle # "added")

\* A difference of at most half a degree either way: what round() takes to 0.
RoundsToZero(d) == -1 <= d /\ d <= 1

MaintenanceEnds(t) ==
    /\ tasks[t].pc \in {"up1", "up2", "down1", "down2"}
    /\ ~tasks[t].cancel
    /\ tasks'[t].pc \in {"interval_sleep", "free"}

\* C21: a maintenance cycle that finds the temperature more than a degree
\* below the target with the power at or below the threshold activates the
\* step-up scene, one that finds it more than a degree above with the power
\* at or above the threshold activates the step-down scene, and a
\* maintenance that activated a step scene has activated it twice when it
\* ends, whatever the first activation returned.
C21_StepIssuedTwice ==
    [][\A t \in TaskIds :
        /\ \A temp \in TempReadings \ {Unavailable} :
              (/\ LoopCycle(t, temp)
               /\ hvac_mode = HEAT
               /\ ~TimerExpired(TimerDurationMinutes, heat_start_time, now)
               /\ current_power_usage # Unavailable) =>
                  /\ (temp - target_temperature < -Degrees(1)
                        /\ current_power_usage <= VOLTAGE_ON_THRESHOLD)
                       => event' = Command("loop", "up", current_power_usage)
                  /\ (temp - target_temperature > Degrees(1)
                        /\ current_power_usage >= VOLTAGE_ON_THRESHOLD)
                       => event' = Command("loop", "down", current_power_usage)
        /\ MaintenanceEnds(t) => tasks[t].cmds = 2]_vars

\* The temperature maintenance of a cycle has nothing to go by.
NothingToGoBy(temp) ==
    \/ temp = Unavailable
    \/ ~config.power_usage_sensor
    \/ power = Unavailable

\* C22: a cycle in mode HEAT whose timer has not run out and that has no
\* temperature reading, no power sensor or no power reading issues no command
\* and changes neither the mode, the target, the timestamps nor the task
\* handle: it sleeps until the next cycle.
C22_SkipsWithoutReadings ==
    [][\A t \in TaskIds, temp \in TempReadings :
        (/\ LoopCycle(t, temp)
         /\ hvac_mode = HEAT
         /\ ~TimerExpired(TimerDurationMinutes, heat_start_time, now)
         /\ NothingToGoBy(temp)) =>
            /\ event'.kind = "cycle_idle"
            /\ tasks'[t].pc = "interval_sleep"
            /\ tasks'[t].wake = now + Seconds(MONITORING_INTERVAL_SECONDS)
            /\ UNCHANGED <<hvac_mode, target_temperature, heat_start_time,
                           last_mode_change_time, monitoring_task, listener>>]_vars

\* A cycle has read a temperature eight degrees below the target without a
\* power reading, and has gone to sleep.
C22_Witness ==
    /\ event.kind = "cycle_idle"
    /\ event.current_temp = Degrees(10)
    /\ event.current_temp - target_temperature < -Degrees(1)
    /\ event.power = Unavailable
    /\ hvac_mode = HEAT
    /\ tasks[event.task].pc = "interval_sleep"

\* Task t takes a step from a position after which the loop tests
\* hvac_mode: the start of a cycle, or a step scene call whose return leads
\* to "wait for next interval".
ObservingStep(t) ==
    /\ tasks[t].pc \in {"created", "interval_sleep", "up1", "down1", "up2", "down2"}
    /\ ~tasks[t].cancel
    /\ tasks'[t] # tasks[t]
    /\ event' # NoEvent

\* C23: a loop that finds hvac_mode other than HEAT at the start of a cycle
\* or after its checks ends there, without a sleep and without a command;
\* a loop enters the interval sleep only in mode HEAT.
C23_ExitsWhenNotHeat ==
    /\ [][\A t \in TaskIds :
            (ObservingStep(t) /\ hvac_mode # HEAT) =>
                /\ tasks'[t].pc = "free"
                /\ event' = [kind |-> "loop_exit", task |-> t]]_vars
    /\ [](event.kind \in {"loop_sleeps", "cycle_idle"} => hvac_mode = HEAT)

\* A loop has found the mode OFF and has ended.
C23_Witness ==
    /\ event.kind = "loop_exit"
    /\ hvac_mode = OFF
    /\ tasks[event.task].pc = "free"

\* The awaits of the loop: the sleeps and the scene calls.
SceneCalls == {"up1", "up2", "down1", "down2", "exp_toggle1", "exp_toggle2"}
SuspensionPoints == TaskSleeps \cup SceneCalls

\* C24: once cancel() has been called on a loop suspended at any of its
\* awaits, the only step the loop takes is its termination, which issues no
\* command and writes neither hvac_mode, heat_start_time nor
\* last_mode_change_time.
C24_CancelledLoopOnlyEnds ==
    [][\A t \in TaskIds :
        (/\ tasks[t].pc \in SuspensionPoints
         /\ tasks[t].cancel
         /\ tasks'[t] # tasks[t]) =>
            /\ tasks'[t].pc = "free"
            /\ event' = [kind |-> "loop_cancelled", task |-> t, at |-> tasks[t].pc]
            /\ UNCHANGED <<hvac_mode, heat_start_time, last_mode_change_time,
                           target_temperature>>]_vars

\* A loop was cancelled while a scene call of its timer-expiry sequence was
\* in flight, and has ended with the mode still HEAT.
C24_Witness ==
    /\ event.kind = "loop_cancelled"
    /\ event.at = "exp_toggle1"
    /\ tasks[event.task].pc = "free"
    /\ hvac_mode = HEAT

\* A step that turns the heater to HEAT: the HEAT branch of a set_hvac_mode
\* call commits, or the power sensor handler switches on.
TurnsToHeat(e) ==
    \/ e.kind = "auto_on"
    \/ ModeWritten(e) /\ e.requested = HEAT

\* C25: an exception raised in a cycle ends that loop and nothing else: the
\* task is done, no command is issued, the entity's state and the calls in
\* progress are as they were. Afterwards the operations work as before: a
\* set_hvac_mode(HEAT) that commits, or an auto-on, leaves a loop running.
C25_FaultEndsLoopOnly ==
    [][/\ \A t \in TaskIds :
            LoopFault(t) =>
                /\ tasks'[t].pc = "free"
                /\ \A u \in TaskIds \ {t} : tasks'[u] = tasks[u]
                /\ \A c \in Slots : calls'[c].pc = calls[c].pc
                /\ UNCHANGED <<hvac_mode, target_temperature, heat_start_time,
                               last_mode_change_time, listener, lifecycle,
                               temp_calls>>
       /\ (stimuli.fault > 0 /\ event' # event /\ TurnsToHeat(event')) =>
             /\ monitoring_task' \in TaskIds
             /\ tasks'[monitoring_task'].pc # "free"]_vars

\* After a loop has failed, the heater was switched to HEAT again and a new
\* loop was started.
C25_Witness ==
    /\ stimuli.fault > 0
    /\ TurnsToHeat(event)
    /\ monitoring_task \in TaskIds
    /\ tasks[monitoring_task].pc = "created"
    /\ Cardinality(LiveTasks) = 1

\* The timer in effect: the value of the options when there is one, else the
\* value given at setup.
TimerInEffect ==
    IF options.timer = Unavailable THEN config.timer ELSE options.timer

\* Task t runs a cycle from its start to its first await.
CycleStep(t) ==
    /\ tasks[t].pc \in {"created", "interval_sleep"}
    /\ ~tasks[t].cancel
    /\ tasks'[t] # tasks[t]
    /\ event' # NoEvent

StopWaiting ==
    \/ \E c \in Slots : calls[c].pc = "stop_wait"
    \/ remover.pc = "stop_wait"

\* The wait_for on task h is about to end: the task has finished, or its
\* cancellation is the next thing the event loop delivers.
WaitEnds(h) ==
    \/ h = DoneTask
    \/ h \in TaskIds /\ Live(h) /\ tasks[h].cancel

NoModeCall == \A c \in Slots : calls[c].pc = "idle"

\* C28: while the entity is installed, whenever the mode is HEAT and no
\* set_hvac_mode call is in progress, a loop is live.
C28_HeatHasLoop ==
    (lifecycle = "added" /\ hvac_mode = HEAT /\ NoModeCall) => LiveTasks # {}

\* C29: every scene a loop activates (step-up, step-down or the toggle of
\* the timer expiry) is activated while hvac_mode is HEAT.
C29_LoopCommandsInHeat ==
    (event.kind = "command" /\ event.by = "loop") => hvac_mode = HEAT

\* C30: when every step scene of set_temperature has succeeded, no two
\* calls have overlapped and none is in progress, the change of
\* target_temperature since the entity was added is within half a degree of
\* the net number of step scenes activated (ups less downs).
C30_TargetFollowsPresses ==
    (lifecycle = "added" /\ pressed.clean /\ NoTempCall) =>
        LET drift == (target_temperature - pressed.start) - Degrees(pressed.net)
        IN -1 <= drift /\ drift <= 1

\* C31: when every request of set_temperature has asked for a whole degree
\* from a whole-degree target, two calls have overlapped, every step scene
\* has succeeded and no call is in progress, the change of
\* target_temperature since the entity was added equals the net number of
\* step scenes activated (ups less downs).
C31_OverlapKeepsNet ==
    (/\ lifecycle = "added" /\ NoTempCall
     /\ pressed.ok /\ pressed.whole /\ ~pressed.clean
     /\ WholeDegrees(pressed.start)) =>
        target_temperature - pressed.start = Degrees(pressed.net)

\* The classification of a numeric reading by the power-state inference:
\* on at or above the threshold, off below it.
is_powered(reading) == reading >= VOLTAGE_ON_THRESHOLD

\* The HEAT branch of set_hvac_mode toggles on a numeric reading only when
\* the inference says off, and goes on without a toggle only when it says on.
HeatDecisionAgrees ==
    /\ (/\ event.kind = "command" /\ event.by = HEAT
        /\ event.power # Unavailable)
            => ~is_powered(event.power)
    /\ (/\ event.kind = "set_mode_returned" /\ event.requested = HEAT
        /\ event.current_mode # HEAT /\ event.toggles = 0
        /\ hvac_mode = HEAT /\ current_power_usage # Unavailable)
            => is_powered(current_power_usage)

\* The verification after the timer's toggle: a second toggle only when the
\* inference says on, none only when it says off.
ExpiryDecisionAgrees ==
    /\ (/\ event.kind = "command" /\ event.by = "loop"
        /\ event.scene = "toggle" /\ event.power # Unavailable)
            => is_powered(event.power)
    /\ (/\ event.kind = "timer_off" /\ event.cmds = 1
        /\ event.power_after_delay # Unavailable /\ config.power_usage_sensor)
            => ~is_powered(event.power_after_delay)

\* The too-cold guard: a step up only when the inference says off; a cycle
\* that is too cold and idles was read as on.
TooColdAgrees ==
    /\ (/\ event.kind = "command" /\ event.by = "loop" /\ event.scene = "up"
        /\ event.power # Unavailable)
            => ~is_powered(event.power)
    /\ (/\ event.kind = "cycle_idle" /\ event.current_temp # Unavailable
        /\ event.power # Unavailable /\ config.power_usage_sensor
        /\ event.current_temp - target_temperature < -Degrees(1))
            => is_powered(event.power)

\* The too-hot guard: a step down only when the inference says on; a cycle
\* that is too hot and idles was read as off.
TooHotAgrees ==
    /\ (/\ event.kind = "command" /\ event.by = "loop" /\ event.scene = "down"
        /\ event.power # Unavailable)
            => is_powered(event.power)
    /\ (/\ event.kind = "cycle_idle" /\ event.current_temp # Unavailable
        /\ event.power # Unavailable /\ config.power_usage_sensor
        /\ event.current_temp - target_temperature > Degrees(1))
            => ~is_powered(event.power)

\* The auto-on handler: it switches to HEAT only on a reading the inference
\* says is on, and leaves the mode OFF after the cooldown only on a reading
\* the inference says is off.
AutoOnAgrees ==
    /\ event.kind = "auto_on" => is_powered(event.reading)
    /\ (/\ event.kind = "power_ignored" /\ event.handled
        /\ event.reading # Unavailable
        /\ hvac_mode = OFF /\ ~AutoOnCooldown)
            => ~is_powered(event.reading)

\* C32: every decision point treats a numeric power reading as on exactly
\* when is_powered does (reading >= threshold): the toggle decision of
\* set_hvac_mode(HEAT), the verification after the timer's toggle, the
\* too-cold and too-hot guards of the maintenance, and the auto-on handler.
C32_ReadingsClassifiedAlike ==
    /\ HeatDecisionAgrees
    /\ ExpiryDecisionAgrees
    /\ TooColdAgrees
    /\ TooHotAgrees
    /\ AutoOnAgrees

====
